---- MODULE Spec2Model ----
(***************************************************************************)
(* iris_app.py: a Streamlit script.  The host re-executes the whole script *)
(* on every widget interaction; st.session_state and the st.cache_data     *)
(* store survive between executions, the script's own names do not.        *)
(*                                                                         *)
(* Numbers.  Widget values are held in tenths of a centimetre (the widget  *)
(* step).  Model outputs and confidences are fixed point with Scale units  *)
(* to 1.0, so that a percentage with two decimals is an exact integer.     *)
(* A Python value that may be None is a sequence: None is <<>> and the     *)
(* value v is <<v>>.                                                       *)
(***************************************************************************)
EXTENDS Integers, Sequences, FiniteSets, TLC

\* ---------------------------------------------------------------- bounds
MaxRenders == 4

\* ------------------------------------------------------ program constants
Scale == 10000
MinValue == 0
MaxValue == 100
Step == 1
DefaultSepalLength == 50
DefaultSepalWidth == 30
DefaultPetalLength == 40
DefaultPetalWidth == 10

Algorithms == <<"Linear Regression", "Logistic Regression">>

InputKeys == <<"sepal_length", "sepal_width", "petal_length", "petal_width">>

\* ------------------------------------------------------------ Python glue
None == <<>>
Some(v) == <<v>>
Val(o) == o[1]

Empty == [k \in {} |-> 0]

\* d[k] = v on a dict
Bind(d, k, v) == [a \in DOMAIN d \cup {k} |-> IF a = k THEN v ELSE d[a]]

Abs(x) == IF x < 0 THEN -x ELSE x

Max(S) == CHOOSE m \in S : \A n \in S : n <= m

Range(s) == {s[i] : i \in DOMAIN s}

\* Python round() on a float: nearest integer, a tie goes to the even one
Round(prediction) ==
    LET q == prediction \div Scale
        f == prediction % Scale
    IN  IF 2 * f < Scale THEN q
        ELSE IF 2 * f > Scale THEN q + 1
        ELSE IF q % 2 = 0 THEN q ELSE q + 1

\* str.capitalize() on the species names
Capitalize(s) ==
    CASE s = "setosa" -> "Setosa"
      [] s = "versicolor" -> "Versicolor"
      [] s = "virginica" -> "Virginica"
      [] OTHER -> s

\* ------------------------------------------------------------ the dataset
(***************************************************************************)
(* What the fetched table determines: the distinct species, and the        *)
(* parameters that fitting each estimator on it produces.  The estimators  *)
(* are library code; a fit is deterministic in the table, so the table     *)
(* carries the outcome.  linear: intercept and one coefficient per feature *)
(* (per tenth of a centimetre, in 1/Scale).  logistic: a decision score    *)
(* that is linear in the features, and the class probabilities along it.   *)
(***************************************************************************)
ProbaCurve ==
    << <<9800, 150, 50>>,
       <<8000, 1900, 100>>,
       <<7999, 1901, 100>>,
       <<5000, 4990, 10>>,
       <<4999, 4999, 2>>,
       <<3400, 3300, 3300>>,
       <<100, 7999, 1901>>,
       <<10, 4990, 5000>>,
       <<50, 150, 9800>> >>

\* the species column, in order of first appearance, and the order of str
Species == <<"virginica", "setosa", "versicolor">>

Lexicographic == <<"setosa", "versicolor", "virginica">>

LinearFits ==
    { [intercept |-> 1865,  coef |-> <<-112, -40, 229, 609>>],
      [intercept |-> 0,     coef |-> <<0, 0, 250, 0>>],
      [intercept |-> -15000, coef |-> <<0, 0, 0, 1000>>] }

LogisticFits ==
    { [intercept |-> -6,   coef |-> <<0, 0, 0, 1>>,  curve |-> ProbaCurve],
      [intercept |-> -104, coef |-> <<1, -1, 2, 1>>, curve |-> ProbaCurve] }

Datasets ==
    { [species |-> Species, linear |-> l, logistic |-> g] :
        l \in LinearFits, g \in LogisticFits }

\* ------------------------------------------------------------- estimators
\* an exception leaving a call, or the value it returns
Raise == [ok |-> FALSE]
Return(v) == [ok |-> TRUE, value |-> v]

\* LabelEncoder.fit: classes_ is the sorted distinct labels
LabelEncoderFit(labels) ==
    SelectSeq(Lexicographic, LAMBDA s : s \in Range(labels))

\* LabelEncoder.inverse_transform([y])[0]: ValueError on an unseen code
InverseTransformClamped(classes, y) ==
    Return(classes[(IF y < 0 THEN 0 ELSE IF y >= Len(classes) THEN Len(classes) - 1 ELSE y) + 1])

InverseTransform(classes, y) ==
    IF y \in 0 .. (Len(classes) - 1) THEN Return(classes[y + 1]) ELSE Raise

Dot(coef, input_data) ==
    coef[1] * input_data[1] + coef[2] * input_data[2]
      + coef[3] * input_data[3] + coef[4] * input_data[4]

\* LinearRegression.predict(input_data)[0]
LinearPredict(model, input_data) ==
    model.intercept + Dot(model.coef, input_data)

\* LogisticRegression.predict_proba(input_data)[0]
LogisticPredictProba(model, input_data) ==
    LET z == model.intercept + Dot(model.coef, input_data)
        n == Len(model.curve)
    IN  model.curve[IF z < 1 THEN 1 ELSE IF z > n THEN n ELSE z]

\* LogisticRegression.predict(input_data)[0]: the most probable class
LogisticPredict(model, input_data) ==
    LET proba == LogisticPredictProba(model, input_data)
    IN  (CHOOSE i \in DOMAIN proba :
            /\ proba[i] = Max(Range(proba))
            /\ \A j \in DOMAIN proba : proba[j] = proba[i] => i <= j) - 1

\* ---------------------------------------------------------------- state
VARIABLES
    pc,             \* where the script execution stands; "idle" between runs
    renders,        \* script executions started in this process
    cache,          \* the st.cache_data store of load_data: None or <<result>>
    ns,             \* the names the running script has bound so far
    session_state,  \* st.session_state
    widgets,        \* the values the browser holds for the five controls
    shown,          \* the elements the current execution has put on the page
    fits,           \* fit calls made in this process, per estimator
    calls,          \* predict / predict_proba calls made by this execution
    recomputes,     \* executions of the predictor body by this execution
    raised,         \* whether this execution's try block raised
    markdown        \* the prediction line on the page: None or <<fields>>

vars == <<pc, renders, cache, ns, session_state, widgets, shown, fits,
          calls, recomputes, raised, markdown>>

DefaultWidgets ==
    [model_selection |-> Algorithms[1],
     sepal_length |-> DefaultSepalLength,
     sepal_width |-> DefaultSepalWidth,
     petal_length |-> DefaultPetalLength,
     petal_width |-> DefaultPetalWidth]

Init ==
    /\ pc = "idle"
    /\ renders = 0
    /\ cache = None
    /\ ns = Empty
    /\ session_state = Empty
    /\ widgets = DefaultWidgets
    /\ shown = {}
    /\ fits = [le |-> 0, linear_model |-> 0, logistic_model |-> 0]
    /\ calls = 0
    /\ recomputes = 0
    /\ raised = FALSE
    /\ markdown = None

\* ------------------------------------------------------- the script's code
\* line 80
InputData(n) ==
    <<n.sepal_length, n.sepal_width, n.petal_length, n.petal_width>>

\* lines 68-72: whether the predictor body runs
ChangeGuardEager(ss, n) == TRUE

ChangeGuardDropsPetalWidth(ss, n) ==
    \/ "species" \notin DOMAIN ss
    \/ ss.sepal_length # n.sepal_length
    \/ ss.sepal_width # n.sepal_width
    \/ ss.petal_length # n.petal_length

ChangeGuard(ss, n) ==
    \/ "species" \notin DOMAIN ss
    \/ ss.sepal_length # n.sepal_length
    \/ ss.sepal_width # n.sepal_width
    \/ ss.petal_length # n.petal_length
    \/ ss.petal_width # n.petal_width

\* lines 74-77
StoreInputs(ss, n) ==
    [a \in DOMAIN ss \cup Range(InputKeys) |->
        IF a \in Range(InputKeys) THEN n[a] ELSE ss[a]]

\* line 86
RegressionConfidenceSigned(prediction, predicted_class) ==
    Scale - (prediction - predicted_class * Scale)

RegressionConfidence(prediction, predicted_class) ==
    Scale - Abs(prediction - predicted_class * Scale)

\* lines 80-91: the names the try block binds, whether it raised, and the
\* calls it made on the estimators
TryBlock(n) ==
    LET input_data == InputData(n)
    IN  IF n.selected_model = "Linear Regression"
        THEN LET prediction == LinearPredict(n.linear_model, input_data)
                 predicted_class == Round(prediction)
                 decoded == InverseTransform(n.le, predicted_class)
             IN  IF decoded.ok
                 THEN [raised |-> FALSE, calls |-> 1,
                       species |-> decoded.value,
                       confidence |-> RegressionConfidence(prediction, predicted_class)]
                 ELSE [raised |-> TRUE, calls |-> 1]
        ELSE LET prediction == LogisticPredict(n.logistic_model, input_data)
                 proba == LogisticPredictProba(n.logistic_model, input_data)
                 decoded == InverseTransform(n.le, prediction)
             IN  IF decoded.ok
                 THEN [raised |-> FALSE, calls |-> 2,
                       species |-> decoded.value,
                       confidence |-> Max(Range(proba))]
                 ELSE [raised |-> TRUE, calls |-> 2]

\* lines 93-94
StoreResult(ss, species, confidence) ==
    Bind(Bind(ss, "species", Some(species)), "confidence", Some(confidence))

\* lines 95-97
ExceptBranchKeepsSpecies(ss) ==
    Bind(ss, "confidence", None)

ExceptBranchKeepsConfidence(ss) ==
    Bind(ss, "species", None)

ExceptBranch(ss) ==
    Bind(Bind(ss, "species", None), "confidence", None)

\* line 100
RenderGuard(ss) ==
    "species" \in DOMAIN ss /\ ss.species # None /\ Val(ss.species) # ""

\* lines 102-107; confidence_percent is in 1/Scale of a percent
ColorLowInclusive(confidence_percent) ==
    IF confidence_percent >= 80 * Scale THEN "green"
    ELSE IF confidence_percent <= 50 * Scale THEN "red"
    ELSE "orange"

Color(confidence_percent) ==
    IF confidence_percent >= 80 * Scale THEN "green"
    ELSE IF confidence_percent < 50 * Scale THEN "red"
    ELSE "orange"

\* {confidence_percent:.2f}, in hundredths of a percent
Format2f(confidence_percent) ==
    (confidence_percent * 100 + Scale \div 2) \div Scale

\* --------------------------------------------------------------- the host
\* the host starts an execution of the script with the widget values w
StartRun(w) ==
    /\ pc = "idle"
    /\ renders < MaxRenders
    /\ pc' = "load"
    /\ renders' = renders + 1
    /\ widgets' = w
    /\ ns' = Empty
    /\ shown' = {}
    /\ calls' = 0
    /\ recomputes' = 0
    /\ raised' = FALSE
    /\ markdown' = None
    /\ UNCHANGED <<cache, session_state, fits>>

\* the browser opens the page
OpenSession ==
    /\ renders = 0
    /\ StartRun(widgets)

\* the user asks for a rerun without touching a control
Rerun ==
    /\ renders > 0
    /\ StartRun(widgets)

\* the + button of a number input
StepUp(k) ==
    /\ "widgets" \in shown
    /\ widgets[k] + Step <= MaxValue
    /\ StartRun([widgets EXCEPT ![k] = @ + Step])

\* the - button of a number input
StepDown(k) ==
    /\ "widgets" \in shown
    /\ widgets[k] - Step >= MinValue
    /\ StartRun([widgets EXCEPT ![k] = @ - Step])

\* the user types a value into a number input
TypeValue(k, v) ==
    /\ "widgets" \in shown
    /\ widgets[k] # v
    /\ StartRun([widgets EXCEPT ![k] = v])

\* the radio button
SelectModel(m) ==
    /\ "widgets" \in shown
    /\ widgets.model_selection # m
    /\ StartRun([widgets EXCEPT !.model_selection = m])

\* ------------------------------------------------------------- the script
\* where execution goes after line 18
AfterLoadAlwaysFit(df) == "fit"

AfterLoad(df) == IF df # None THEN "fit" ELSE "warn"

\* lines 7-16, cache miss, read_csv returns a table
LoadDataFetched ==
    /\ pc = "load"
    /\ cache = None
    /\ \E table \in Datasets :
         /\ cache' = Some(table)
         /\ ns' = Bind(ns, "df", table)
         /\ pc' = AfterLoad(table)
    /\ UNCHANGED <<renders, session_state, widgets, shown, fits, calls,
                   recomputes, raised, markdown>>

\* lines 7-16, cache miss, read_csv raises: st.error, and None is cached
LoadDataFailed ==
    /\ pc = "load"
    /\ cache = None
    /\ cache' = Some(None)
    /\ shown' = shown \cup {"error"}
    /\ ns' = Bind(ns, "df", None)
    /\ pc' = AfterLoad(None)
    /\ UNCHANGED <<renders, session_state, widgets, fits, calls, recomputes,
                   raised, markdown>>

\* lines 7-16, cache hit: the stored value, and the stored elements replayed
LoadDataCached ==
    /\ pc = "load"
    /\ cache # None
    /\ ns' = Bind(ns, "df", Val(cache))
    /\ shown' = IF Val(cache) = None THEN shown \cup {"error"} ELSE shown
    /\ pc' = AfterLoad(Val(cache))
    /\ UNCHANGED <<renders, cache, session_state, widgets, fits, calls,
                   recomputes, raised, markdown>>

\* lines 19-33
FitModels ==
    /\ pc = "fit"
    /\ ns' = Bind(Bind(Bind(ns, "le", LabelEncoderFit(ns.df.species)),
                       "linear_model", ns.df.linear),
                  "logistic_model", ns.df.logistic)
    /\ fits' = [e \in DOMAIN fits |-> fits[e] + 1]
    /\ pc' = "input"
    /\ UNCHANGED <<renders, cache, session_state, widgets, shown, calls,
                   recomputes, raised, markdown>>

\* lines 35-65
CaptureInput ==
    /\ pc = "input"
    /\ ns' = [a \in DOMAIN ns \cup {"selected_model"} \cup Range(InputKeys) |->
                IF a = "selected_model" THEN widgets.model_selection
                ELSE IF a \in Range(InputKeys) THEN widgets[a]
                ELSE ns[a]]
    /\ session_state' = Bind(session_state, "model_selection",
                             widgets.model_selection)
    /\ shown' = shown \cup {"widgets"}
    /\ pc' = "predict"
    /\ UNCHANGED <<renders, cache, widgets, fits, calls, recomputes, raised, markdown>>

\* lines 68-97
Predictor ==
    /\ pc = "predict"
    /\ IF ChangeGuard(session_state, ns)
       THEN LET r == TryBlock(ns)
                stored == StoreInputs(session_state, ns)
            IN  /\ session_state' =
                     IF r.raised THEN ExceptBranch(stored)
                     ELSE StoreResult(stored, r.species, r.confidence)
                /\ calls' = calls + r.calls
                /\ recomputes' = recomputes + 1
                /\ raised' = r.raised
       ELSE UNCHANGED <<session_state, calls, recomputes, raised>>
    /\ pc' = "display"
    /\ UNCHANGED <<renders, cache, ns, widgets, shown, fits, markdown>>

\* lines 100-111; multiplying None, or a missing key, ends the execution
\* with an uncaught exception
Display ==
    /\ pc = "display"
    /\ IF RenderGuard(session_state)
       THEN IF "confidence" \in DOMAIN session_state
                 /\ session_state.confidence # None
            THEN LET confidence_percent == Val(session_state.confidence) * 100
                 IN  /\ ns' = Bind(Bind(ns, "confidence_percent", confidence_percent),
                                   "color", Color(confidence_percent))
                     /\ shown' = shown \cup {"prediction"}
                     /\ markdown' =
                          Some([species |-> Capitalize(Val(session_state.species)),
                                color |-> Color(confidence_percent),
                                percent |-> Format2f(confidence_percent)])
            ELSE /\ shown' = shown \cup {"exception"}
                 /\ UNCHANGED <<ns, markdown>>
       ELSE UNCHANGED <<ns, shown, markdown>>
    /\ pc' = "idle"
    /\ UNCHANGED <<renders, cache, session_state, widgets, fits, calls,
                   recomputes, raised>>

\* lines 112-113
Warn ==
    /\ pc = "warn"
    /\ shown' = shown \cup {"warning"}
    /\ pc' = "idle"
    /\ UNCHANGED <<renders, cache, ns, session_state, widgets, fits, calls,
                   recomputes, raised, markdown>>

TypedValues == {MinValue, MaxValue}

Next ==
    \/ OpenSession
    \/ Rerun
    \/ \E k \in Range(InputKeys) : StepUp(k)
    \/ \E k \in Range(InputKeys) : StepDown(k)
    \/ \E k \in Range(InputKeys), v \in TypedValues : TypeValue(k, v)
    \/ \E m \in Range(Algorithms) : SelectModel(m)
    \/ LoadDataFetched
    \/ LoadDataFailed
    \/ LoadDataCached
    \/ FitModels
    \/ CaptureInput
    \/ Predictor
    \/ Display
    \/ Warn

Spec == Init /\ [][Next]_vars

\* ================================================================ claims
Keys == Range(InputKeys)

HasResult == "species" \in DOMAIN session_state

\* the stored input tuple equals the inputs of the running execution
StoredIsCurrent == \A k \in Keys : session_state[k] = ns[k]

\* the predictor has acted in the current execution
AfterPredictor == pc \in {"display", "idle"} /\ "selected_model" \in DOMAIN ns

OnRegression == ns.selected_model = "Linear Regression"

Raw == LinearPredict(ns.linear_model, InputData(ns))

ClassCodes == 0 .. (Cardinality(Range(ns.df.species)) - 1)

\* some integer outside the class codes is strictly the nearest to Raw
NearestOutOfRange ==
    \E c \in {Raw \div Scale, Raw \div Scale + 1} :
        /\ c \notin ClassCodes
        /\ 2 * Abs(Raw - c * Scale) < Scale

BothAbsent ==
    /\ HasResult
    /\ session_state.species = None
    /\ "confidence" \in DOMAIN session_state
    /\ session_state.confidence = None

\* what the model selected in the running execution yields for its inputs
ResultIsOfSelectedModel ==
    LET r == TryBlock(ns)
    IN  IF r.raised THEN BothAbsent
        ELSE /\ HasResult
             /\ session_state.species = Some(r.species)
             /\ session_state.confidence = Some(r.confidence)

\* C1: at the display step of every render the stored species and confidence
\* are what the currently selected model yields for the current inputs
\* (absent if that prediction fails).
C1_ConsistentWithSelectedModel ==
    pc = "display" => ResultIsOfSelectedModel

\* C2: a render whose inputs equal the stored tuple, with a prior result in
\* session state, calls no model and leaves the stored tuple, species and
\* confidence unchanged.
C2_NoRecomputeWhenUnchanged ==
    [][(pc = "predict" /\ HasResult /\ StoredIsCurrent)
         => /\ calls' = 0
            /\ recomputes' = 0
            /\ session_state' = session_state]_vars

C2_Witness ==
    /\ pc = "display"
    /\ renders >= 2
    /\ HasResult
    /\ StoredIsCurrent
    /\ recomputes = 0
    /\ calls = 0

\* C3: a render whose inputs differ from the stored tuple in some component,
\* or that finds no prior result, recomputes exactly once with the selected
\* model before its display step and stores the new tuple and the new result;
\* at the display step the stored tuple equals the current inputs.
C3_RecomputeOnceWhenChanged ==
    /\ [](pc = "display" => HasResult /\ StoredIsCurrent)
    /\ [][(pc = "predict" /\ (~HasResult \/ ~StoredIsCurrent))
            => /\ recomputes' = 1
               /\ calls' = TryBlock(ns).calls
               /\ StoredIsCurrent'
               /\ ResultIsOfSelectedModel']_vars

C3_Witness ==
    /\ pc = "display"
    /\ renders >= 2
    /\ recomputes = 1
    /\ StoredIsCurrent
    /\ \E k \in Keys : ns[k] # DefaultWidgets[k]

\* C4: when the try block of a recomputation raises, species and confidence
\* are stored as absent, the new input tuple is stored, the render goes on to
\* its display step without an uncaught exception, and no predicted-species
\* line is shown.
C4_FailureStoresAbsent ==
    raised => /\ AfterPredictor
              /\ BothAbsent
              /\ StoredIsCurrent
              /\ "exception" \notin shown
              /\ "prediction" \notin shown
              /\ markdown = None

C4_Witness ==
    /\ raised
    /\ pc = "idle"
    /\ renders >= 2
    /\ BothAbsent

LoadFailed == "df" \in DOMAIN ns /\ ns.df = None

NothingBeyondTheLoad ==
    /\ DOMAIN ns = {"df"}
    /\ pc \in {"warn", "idle"}
    /\ \A e \in DOMAIN fits : fits[e] = 0
    /\ session_state = Empty
    /\ calls = 0
    /\ recomputes = 0
    /\ markdown = None
    /\ "exception" \notin shown

\* C5 as stated: when the load fails, load_data returns the failure value
\* without raising, the page shows only the warning, and nothing is fitted,
\* read from a widget, predicted or stored.
C5_OnlyTheWarning ==
    LoadFailed => /\ NothingBeyondTheLoad
                  /\ pc = "idle" => shown = {"warning"}

\* C5 as amended: when the load fails, load_data returns the failure value
\* without raising, the page shows the loader's error notice and the warning
\* and nothing else, and nothing is fitted, read from a widget, predicted or
\* stored.
C5_ErrorAndWarningOnly ==
    LoadFailed => /\ NothingBeyondTheLoad
                  /\ shown \subseteq {"error", "warning"}
                  /\ "error" \in shown
                  /\ pc = "idle" => shown = {"error", "warning"}

C5_Witness ==
    /\ LoadFailed
    /\ pc = "idle"
    /\ renders >= 2
    /\ shown = {"error", "warning"}

\* C6: for a displayed prediction the color is a total function of
\* confidence_percent = confidence * 100: green iff >= 80, red iff < 50,
\* orange otherwise; 80.00 is green, 79.99 orange, 50.00 orange, 49.99 red.
C6_ColorThresholds ==
    "prediction" \in shown =>
        LET p == ns.confidence_percent
            c == ns.color
        IN  /\ p = Val(session_state.confidence) * 100
            /\ c \in {"green", "orange", "red"}
            /\ c = "green" <=> p >= 80 * Scale
            /\ c = "red" <=> p < 50 * Scale
            /\ c = "orange" <=> (50 * Scale <= p /\ p < 80 * Scale)
            /\ Val(markdown).color = c
            /\ Val(markdown).percent = 8000 => c = "green"
            /\ Val(markdown).percent = 7999 => c = "orange"
            /\ Val(markdown).percent = 5000 => c = "orange"
            /\ Val(markdown).percent = 4999 => c = "red"

C6_Witness ==
    /\ "prediction" \in shown
    /\ Val(markdown).percent = 5000
    /\ ns.color = "orange"

\* C7: on the regression path the rounded prediction is not clamped: when the
\* integer nearest to the raw prediction is not a class code, decoding fails,
\* species and confidence are stored as absent, no label is stored or shown,
\* and the render does not end in an uncaught exception.
C7_OutOfRangeIsAbsent ==
    (AfterPredictor /\ recomputes = 1 /\ OnRegression /\ NearestOutOfRange)
        => /\ BothAbsent
           /\ "exception" \notin shown
           /\ "prediction" \notin shown

C7_Witness ==
    /\ pc = "idle"
    /\ recomputes = 1
    /\ OnRegression
    /\ NearestOutOfRange
    /\ BothAbsent

\* C8: on the regression path with an in-range rounded class the stored
\* confidence is 1 - |raw - rounded class|; a raw prediction that is exactly
\* a class code gives confidence 1.0, displayed as 100.00%.
C8_RegressionConfidence ==
    (AfterPredictor /\ recomputes = 1 /\ OnRegression /\ ~raised)
        => /\ \E c \in ClassCodes :
                /\ session_state.species = Some(ns.le[c + 1])
                /\ 2 * Abs(Raw - c * Scale) <= Scale
                /\ session_state.confidence = Some(Scale - Abs(Raw - c * Scale))
           /\ Raw % Scale = 0 => session_state.confidence = Some(Scale)
           /\ (Raw % Scale = 0 /\ pc = "idle") =>
                 markdown # None /\ Val(markdown).percent = 100 * 100

C8_Witness ==
    /\ pc = "idle"
    /\ recomputes = 1
    /\ OnRegression
    /\ ~raised
    /\ Raw = Scale
    /\ session_state.confidence = Some(Scale)
    /\ Val(markdown).percent = 100 * 100

\* C9: with a loaded dataset the label codec and each model are fitted
\* exactly once per process; a later re-render makes no further fit call.
C9_FittedOnce ==
    \A e \in DOMAIN fits : fits[e] <= 1

\* C10: once a result is stored, species and confidence are both absent or
\* both present, so the display step never multiplies an absent confidence.
C10_BothOrNeither ==
    /\ HasResult =>
          /\ "confidence" \in DOMAIN session_state
          /\ session_state.species = None <=> session_state.confidence = None
    /\ "exception" \notin shown

C10_Witness ==
    /\ "prediction" \in shown
    /\ renders >= 2
    /\ session_state.species # None
    /\ session_state.confidence # None

====
